---- MODULE Spec2Model ----
(***************************************************************************)
(* The Neewer BLE light session (custom_components/neewer_ble):            *)
(* the model catalog, the unit converters, the frame builders and the      *)
(* connect / write / disconnect life cycle of NeewerLightDevice, with its  *)
(* asyncio lock, under concurrent callers.                                 *)
(*                                                                         *)
(* Strings are tuples of one-character strings.  Python's None is the      *)
(* empty tuple and a present value v is <<v>>.  A step of the model is     *)
(* the code an asyncio task runs between two suspension points.            *)
(***************************************************************************)
EXTENDS Integers, Sequences, FiniteSets

None == <<>>

Some(v) == <<v>>

\* ---------------------------------------------------------------- const.py

SUPPORTED_MODELS ==
    <<
       [code |-> <<"2", "0", "2", "2", "0", "0", "3", "5">>,
        info |-> [name |-> <<"M", "S", "1", "5", "0", "B">>, rgb |-> FALSE,
                 cct_range |-> <<2700, 6500>>, cct_only |-> FALSE, light_type |-> 1]],
       [code |-> <<"2", "0", "2", "3", "0", "0", "8", "0">>,
        info |-> [name |-> <<"M", "S", "6", "0", "C">>, rgb |-> TRUE,
                 cct_range |-> <<2700, 6500>>, cct_only |-> FALSE, light_type |-> 1]],
       [code |-> <<"R", "G", "B", "6", "6", "0", "P", "R", "O">>,
        info |-> [name |-> <<"R", "G", "B", "6", "6", "0", " ", "P", "R", "O">>, rgb |-> TRUE,
                 cct_range |-> <<3200, 5600>>, cct_only |-> FALSE, light_type |-> 0]],
       [code |-> <<"R", "G", "B", "6", "6", "0">>,
        info |-> [name |-> <<"R", "G", "B", "6", "6", "0">>, rgb |-> TRUE,
                 cct_range |-> <<3200, 5600>>, cct_only |-> FALSE, light_type |-> 0]],
       [code |-> <<"R", "G", "B", "4", "8", "0">>,
        info |-> [name |-> <<"R", "G", "B", "4", "8", "0">>, rgb |-> TRUE,
                 cct_range |-> <<3200, 5600>>, cct_only |-> FALSE, light_type |-> 0]],
       [code |-> <<"R", "G", "B", "5", "3", "0">>,
        info |-> [name |-> <<"R", "G", "B", "5", "3", "0">>, rgb |-> TRUE,
                 cct_range |-> <<3200, 5600>>, cct_only |-> FALSE, light_type |-> 0]],
       [code |-> <<"R", "G", "B", "5", "3", "0", "P", "R", "O">>,
        info |-> [name |-> <<"R", "G", "B", "5", "3", "0", " ", "P", "R", "O">>, rgb |-> TRUE,
                 cct_range |-> <<3200, 5600>>, cct_only |-> FALSE, light_type |-> 0]],
       [code |-> <<"R", "G", "B", "1", "7", "6">>,
        info |-> [name |-> <<"R", "G", "B", "1", "7", "6">>, rgb |-> TRUE,
                 cct_range |-> <<3200, 5600>>, cct_only |-> FALSE, light_type |-> 0]],
       [code |-> <<"R", "G", "B", "9", "6", "0">>,
        info |-> [name |-> <<"R", "G", "B", "9", "6", "0">>, rgb |-> TRUE,
                 cct_range |-> <<3200, 5600>>, cct_only |-> FALSE, light_type |-> 0]],
       [code |-> <<"S", "L", "8", "0">>,
        info |-> [name |-> <<"S", "L", "-", "8", "0">>, rgb |-> FALSE,
                 cct_range |-> <<3200, 8500>>, cct_only |-> TRUE, light_type |-> 0]],
       [code |-> <<"S", "N", "L", "6", "6", "0">>,
        info |-> [name |-> <<"S", "N", "L", "-", "6", "6", "0">>, rgb |-> FALSE,
                 cct_range |-> <<3200, 5600>>, cct_only |-> TRUE, light_type |-> 0]],
       [code |-> <<"S", "N", "L", "5", "3", "0">>,
        info |-> [name |-> <<"S", "N", "L", "-", "5", "3", "0">>, rgb |-> FALSE,
                 cct_range |-> <<3200, 5600>>, cct_only |-> TRUE, light_type |-> 0]],
       [code |-> <<"S", "N", "L", "4", "8", "0">>,
        info |-> [name |-> <<"S", "N", "L", "-", "4", "8", "0">>, rgb |-> FALSE,
                 cct_range |-> <<3200, 5600>>, cct_only |-> TRUE, light_type |-> 0]],
       [code |-> <<"2", "0", "2", "2", "0", "0", "0", "1">>,
        info |-> [name |-> <<"G", "L", "1">>, rgb |-> FALSE,
                 cct_range |-> <<2900, 7000>>, cct_only |-> FALSE, light_type |-> 1]],
       [code |-> <<"2", "0", "2", "2", "0", "0", "5", "1">>,
        info |-> [name |-> <<"C", "B", "1", "0", "0", "C">>, rgb |-> TRUE,
                 cct_range |-> <<2700, 6500>>, cct_only |-> FALSE, light_type |-> 1]],
       [code |-> <<"2", "0", "2", "2", "0", "0", "5", "5">>,
        info |-> [name |-> <<"C", "B", "3", "0", "0", "B">>, rgb |-> FALSE,
                 cct_range |-> <<2700, 6500>>, cct_only |-> FALSE, light_type |-> 1]],
       [code |-> <<"R", "G", "B", "5", "1", "2">>,
        info |-> [name |-> <<"R", "G", "B", "5", "1", "2">>, rgb |-> TRUE,
                 cct_range |-> <<2500, 10000>>, cct_only |-> FALSE, light_type |-> 2]],
       [code |-> <<"R", "G", "B", "8", "0", "0">>,
        info |-> [name |-> <<"R", "G", "B", "8", "0", "0">>, rgb |-> TRUE,
                 cct_range |-> <<2500, 10000>>, cct_only |-> FALSE, light_type |-> 2]],
       [code |-> <<"R", "G", "B", "1">>,
        info |-> [name |-> <<"R", "G", "B", "1">>, rgb |-> TRUE,
                 cct_range |-> <<3200, 5600>>, cct_only |-> FALSE, light_type |-> 0]],
       [code |-> <<"T", "L", "6", "0">>,
        info |-> [name |-> <<"T", "L", "6", "0", " ", "R", "G", "B">>, rgb |-> TRUE,
                 cct_range |-> <<2700, 6500>>, cct_only |-> FALSE, light_type |-> 0]]
    >>

MAX_CONNECTION_RETRIES == 3

\* ------------------------------------------------------- protocol opcodes

STD_POWER_CMD == 129

STD_BRI_CMD == 130

STD_TEMP_CMD == 131

STD_HSI_CMD == 134

STD_CCT_CMD == 135

INF_POWER_CMD == 141

INF_CCT_CMD == 144

INF_HSI_CMD == 143

FRAME_PREFIX == 120

GM_VALUE == 50

\* ------------------------------------------------------------ str helpers

LowerChars == <<"a", "b", "c", "d", "e", "f", "g", "h", "i", "j", "k", "l", "m", "n", "o", "p", "q", "r", "s", "t", "u", "v", "w", "x", "y", "z">>

UpperChars == <<"A", "B", "C", "D", "E", "F", "G", "H", "I", "J", "K", "L", "M", "N", "O", "P", "Q", "R", "S", "T", "U", "V", "W", "X", "Y", "Z">>

\* str.upper() as a table over the lower-case letters
UpperMap ==
    [c \in {LowerChars[i] : i \in 1..Len(LowerChars)} |->
        UpperChars[CHOOSE i \in 1..Len(LowerChars) : LowerChars[i] = c]]

\* str.upper() on one character
UpperChar(c) == IF c \in DOMAIN UpperMap THEN UpperMap[c] ELSE c

\* str.upper()
Upper(s) == [i \in 1..Len(s) |-> UpperChar(s[i])]

\* `sub in s`
Contains(s, sub) ==
    \E i \in 1..(Len(s) - Len(sub) + 1) : SubSeq(s, i, i + Len(sub) - 1) = sub

\* s.replace(a, b) for single characters a, b
Replace(s, a, b) == [i \in 1..Len(s) |-> IF s[i] = a THEN b ELSE s[i]]

\* s.split(sep) for a single character sep
Split(s, sep) ==
    LET pos == {i \in 1..Len(s) : s[i] = sep}
        \* the k-th separator, with 0 and Len(s) + 1 as the two ends
        Nth(k) == IF k = 0 THEN 0
                  ELSE IF k > Cardinality(pos) THEN Len(s) + 1
                  ELSE CHOOSE q \in pos : Cardinality({x \in pos : x < q}) = k - 1
    IN  [j \in 1..(Cardinality(pos) + 1) |-> SubSeq(s, Nth(j - 1) + 1, Nth(j) - 1)]

HexDigits == <<"0", "1", "2", "3", "4", "5", "6", "7", "8", "9", "A", "B", "C", "D", "E", "F">>

\* the value of each upper-case hexadecimal digit
HexMap ==
    [c \in {HexDigits[i] : i \in 1..16} |-> (CHOOSE i \in 1..16 : HexDigits[i] = c) - 1]

\* the value of one hexadecimal digit, -1 for any other character
HexDigitValue(c) ==
    IF UpperChar(c) \in DOMAIN HexMap THEN HexMap[UpperChar(c)] ELSE -1

\* int(p, 16); -1 stands for the ValueError int() raises on a non-hex string
RECURSIVE ParseHex(_)
ParseHex(p) ==
    IF Len(p) = 0 THEN -1
    ELSE LET d == HexDigitValue(p[Len(p)])
         IN  IF d = -1 THEN -1
             ELSE IF Len(p) = 1 THEN d
             ELSE LET hi == ParseHex(SubSeq(p, 1, Len(p) - 1))
                  IN  IF hi = -1 THEN -1 ELSE hi * 16 + d

Max(a, b) == IF a >= b THEN a ELSE b

Min(a, b) == IF a <= b THEN a ELSE b

\* mutant: the lower bound is not applied
Clamp_NoLower(lo, hi, v) == Min(hi, v)

\* mutant: the clamp forgets its upper bound
Clamp_NoUpper(lo, hi, v) == Max(lo, v)

\* max(lo, min(hi, v))
Clamp(lo, hi, v) == Max(lo, Min(hi, v))

\* dict.get(key, default)
Get(info, key, default) == IF key \in DOMAIN info THEN info[key] ELSE default

\* ------------------------------------------------------- model resolution

\* the generic bi-color light _detect_model falls back to
DefaultModelInfo ==
    [name |-> <<"U", "n", "k", "n", "o", "w", "n">>, rgb |-> FALSE,
     cct_range |-> <<3200, 5600>>, infinity |-> FALSE]

\* mutant: the entry with the longest matching code wins
_detect_model_longest(adv_name) ==
    LET name == Upper(adv_name)
        Hit(i) == \/ Contains(name, SUPPORTED_MODELS[i].code)
                  \/ Contains(name, Upper(SUPPORTED_MODELS[i].info.name))
        hits == {i \in 1..Len(SUPPORTED_MODELS) : Hit(i)}
    IN  IF hits # {}
        THEN SUPPORTED_MODELS[CHOOSE i \in hits :
                 \A j \in hits :
                     \/ Len(SUPPORTED_MODELS[j].code) < Len(SUPPORTED_MODELS[i].code)
                     \/ Len(SUPPORTED_MODELS[j].code) = Len(SUPPORTED_MODELS[i].code) /\ i <= j].info
        ELSE DefaultModelInfo

\* first catalog entry, in dict order, whose code or upper-cased name is in
\* the upper-cased advertised name
_detect_model(adv_name) ==
    LET name == Upper(adv_name)
        Hit(i) == \/ Contains(name, SUPPORTED_MODELS[i].code)
                  \/ Contains(name, Upper(SUPPORTED_MODELS[i].info.name))
    IN  IF \E i \in 1..Len(SUPPORTED_MODELS) : Hit(i)
        THEN SUPPORTED_MODELS[CHOOSE i \in 1..Len(SUPPORTED_MODELS) :
                                  Hit(i) /\ \A j \in 1..(i - 1) : ~Hit(j)].info
        ELSE DefaultModelInfo

\* mutant: every device is taken to support RGB
supports_rgb_always(info) == TRUE

supports_rgb(info) == Get(info, "rgb", FALSE)

uses_infinity_protocol(info) == Get(info, "infinity", FALSE)

color_temp_range(info) == Get(info, "cct_range", <<3200, 5600>>)

\* -------------------------------------------------------- unit converters

\* The percentages p for which the double (p / 100) * 100 falls just below p,
\* so that int() truncates it to p - 1.
InexactPercent == {29, 57, 58}

\* mutant: the scaling rounds up instead of truncating
ScaleTo100_Ceil(d, r) == (d * 100 + r - 1) \div r

\* int((d / r) * 100) in IEEE double arithmetic, for 0 <= d <= r
ScaleTo100(d, r) ==
    LET q == (d * 100) \div r
    IN  IF q * r = d * 100 /\ q \in InexactPercent THEN q - 1 ELSE q

_kelvin_to_internal(info, kelvin) ==
    LET min_k == color_temp_range(info)[1]
        max_k == color_temp_range(info)[2]
        k == Max(min_k, Min(max_k, kelvin))
    IN  ScaleTo100(k - min_k, max_k - min_k)

_internal_to_kelvin(info, internal) ==
    LET min_k == color_temp_range(info)[1]
        max_k == color_temp_range(info)[2]
    IN  min_k + (internal * (max_k - min_k)) \div 100

\* mutant: the protocol temperature rounds to nearest
TempProtocol_Rounded(color_temp) == 32 + (color_temp * 24 + 50) \div 100

\* int(32 + (color_temp / 100) * 24)
TempProtocol(color_temp) == 32 + (color_temp * 24) \div 100

\* ------------------------------------------------------------ frame codec

RECURSIVE SumBytes(_)
SumBytes(data) ==
    IF Len(data) = 0 THEN 0
    ELSE (IF Head(data) < 0 THEN Head(data) + 256 ELSE Head(data)) + SumBytes(Tail(data))

\* mutant: the checksum is not masked to eight bits
_calculate_checksum_unmasked(data) == SumBytes(data)

_calculate_checksum(data) == SumBytes(data) % 256

_add_checksum(cmd) == cmd \o <<_calculate_checksum(cmd)>>

\* mutant: the Standard CCT length byte counts the checksum as well
_build_cct_command_long(info, mac, brightness, color_temp) ==
    IF uses_infinity_protocol(info)
    THEN _add_checksum(<<FRAME_PREFIX, INF_CCT_CMD, 11>> \o mac
                       \o <<STD_CCT_CMD, brightness, TempProtocol(color_temp), GM_VALUE, 4>>)
    ELSE _add_checksum(<<FRAME_PREFIX, STD_CCT_CMD, 3, brightness, TempProtocol(color_temp)>>)

_build_cct_command(info, mac, brightness, color_temp) ==
    IF uses_infinity_protocol(info)
    THEN _add_checksum(<<FRAME_PREFIX, INF_CCT_CMD, 11>> \o mac
                       \o <<STD_CCT_CMD, brightness, TempProtocol(color_temp), GM_VALUE, 4>>)
    ELSE _add_checksum(<<FRAME_PREFIX, STD_CCT_CMD, 2, brightness, TempProtocol(color_temp)>>)

\* mutant: the two hue bytes are big-endian
_build_hsi_command_big_endian(info, mac, hue, saturation, intensity) ==
    LET hue_low == hue % 256
        hue_high == (hue \div 256) % 256
    IN  IF uses_infinity_protocol(info)
        THEN _add_checksum(<<FRAME_PREFIX, INF_HSI_CMD, 11>> \o mac
                           \o <<STD_HSI_CMD, hue_high, hue_low, saturation, intensity>>)
        ELSE _add_checksum(<<FRAME_PREFIX, STD_HSI_CMD, 4, hue_high, hue_low,
                             saturation, intensity>>)

_build_hsi_command(info, mac, hue, saturation, intensity) ==
    LET hue_low == hue % 256
        hue_high == (hue \div 256) % 256
    IN  IF uses_infinity_protocol(info)
        THEN _add_checksum(<<FRAME_PREFIX, INF_HSI_CMD, 11>> \o mac
                           \o <<STD_HSI_CMD, hue_low, hue_high, saturation, intensity>>)
        ELSE _add_checksum(<<FRAME_PREFIX, STD_HSI_CMD, 4, hue_low, hue_high,
                             saturation, intensity>>)

\* mutant: the Standard power-off payload is 0, as in the Infinity frame
_build_power_command_zero_off(info, mac, on) ==
    IF uses_infinity_protocol(info)
    THEN _add_checksum(<<FRAME_PREFIX, INF_POWER_CMD, 8>> \o mac
                       \o <<STD_POWER_CMD, IF on THEN 1 ELSE 0>>)
    ELSE _add_checksum(<<FRAME_PREFIX, STD_POWER_CMD, 1, IF on THEN 1 ELSE 0>>)

_build_power_command(info, mac, on) ==
    IF uses_infinity_protocol(info)
    THEN _add_checksum(<<FRAME_PREFIX, INF_POWER_CMD, 8>> \o mac
                       \o <<STD_POWER_CMD, IF on THEN 1 ELSE 0>>)
    ELSE _add_checksum(<<FRAME_PREFIX, STD_POWER_CMD, 1, IF on THEN 1 ELSE 2>>)

_build_brightness_only_command(brightness) ==
    _add_checksum(<<FRAME_PREFIX, STD_BRI_CMD, 1, brightness>>)

_build_temp_only_command(color_temp) ==
    _add_checksum(<<FRAME_PREFIX, STD_TEMP_CMD, 1, TempProtocol(color_temp)>>)

\* ------------------------------------------------------ address resolution

ZeroMac == <<0, 0, 0, 0, 0, 0>>

\* _get_hardware_mac_macos, given the 17-character field found after
\* "Address:" in the profiler output (None: device or field not found,
\* timeout, or any error); a validated string comes back as Some(string)
_get_hardware_mac_macos(mac_str) ==
    IF mac_str = None THEN None
    ELSE LET mac_clean == Upper(Replace(mac_str[1], "-", ":"))
             parts == Split(mac_clean, ":")
         IN  IF Len(parts) = 6 /\ \A i \in 1..Len(parts) : Len(parts[i]) = 2
             THEN Some(mac_clean)
             ELSE None

\* mutant: the hardware MAC is looked up on every call, cached or not
_get_mac_bytes_relookup(info, system, hw_mac, address, mac_str) ==
    LET darwin == uses_infinity_protocol(info) /\ system = "Darwin"
        hw == IF darwin THEN _get_hardware_mac_macos(mac_str) ELSE hw_mac
        hw_parts == IF hw = None THEN <<>> ELSE Split(Replace(hw[1], "-", ":"), ":")
        parts == Split(Replace(address, "-", ":"), ":")
        chosen == IF darwin /\ hw # None /\ Len(hw[1]) > 0 /\ Len(hw_parts) = 6 THEN hw_parts
                  ELSE IF Len(parts) = 6 THEN parts
                  ELSE <<>>
        bytes == IF chosen = <<>> THEN ZeroMac
                 ELSE [i \in 1..6 |-> ParseHex(chosen[i])]
    IN  [bytes |-> bytes, hw |-> hw, raised |-> \E i \in 1..6 : bytes[i] = -1,
         looked |-> darwin]

\* _get_mac_bytes: the six bytes, the hardware-MAC cache afterwards, whether
\* int(p, 16) raised ValueError, and whether _get_hardware_mac_macos was called
_get_mac_bytes(info, system, hw_mac, address, mac_str) ==
    LET darwin == uses_infinity_protocol(info) /\ system = "Darwin"
        hw == IF darwin /\ hw_mac = None THEN _get_hardware_mac_macos(mac_str) ELSE hw_mac
        hw_parts == IF hw = None THEN <<>> ELSE Split(Replace(hw[1], "-", ":"), ":")
        parts == Split(Replace(address, "-", ":"), ":")
        chosen == IF darwin /\ hw # None /\ Len(hw[1]) > 0 /\ Len(hw_parts) = 6 THEN hw_parts
                  ELSE IF Len(parts) = 6 THEN parts
                  ELSE <<>>
        bytes == IF chosen = <<>> THEN ZeroMac
                 ELSE [i \in 1..6 |-> ParseHex(chosen[i])]
    IN  [bytes |-> bytes, hw |-> hw, raised |-> \E i \in 1..6 : bytes[i] = -1,
         looked |-> darwin /\ hw_mac = None]

\* ------------------------------------------------------------------ state

VARIABLES
    _name, _address, _model_info, platform_system, _hw_mac_address,
    _is_on, _brightness, _color_temp, _hue, _saturation,
    _client, _connected, _lock, open, task, hist, trace_on, calc

\* what no operation of the session changes: the constructor's arguments, the
\* platform, and the record of a codec function applied on its own
config == <<_name, _address, _model_info, platform_system, trace_on, calc>>

light == <<_is_on, _brightness, _color_temp, _hue, _saturation>>

vars == <<_name, _address, _model_info, platform_system, _hw_mac_address,
          _is_on, _brightness, _color_temp, _hue, _saturation,
          _client, _connected, _lock, open, task, hist, trace_on, calc>>

\* ----------------------------------------------------------------- bounds

\* transport connection handles the model tells apart
MaxHandles == 2

Handles == 1..MaxHandles

Tasks == {"A", "B"}

SeqTasks == {"A"}

\* the arguments the callers pass
BrightnessArgs == {None, Some(80)}

KelvinArgs == {None, Some(4000)}

\* (hue, saturation) pairs
HueSatArgs == {<<None, None>>, <<Some(120), None>>, <<Some(120), Some(50)>>}

SetBrightnessArgs == {0, 80}

SetKelvinArgs == {4000}

\* the address field the profiler side channel may show
ProfilerFields == {None, Some(<<"1", "1", "-", "2", "2", "-", "3", "3", "-", "4", "4", "-", "5", "5", "-", "6", "6">>)}

GoodAddress == <<"A", "A", ":", "B", "B", ":", "C", "C", ":", "D", "D", ":", "E", "E", ":", "F", "F">>

ExplicitInfinityInfo ==
    [name |-> <<"M", "S", "6", "0", "C">>, rgb |-> TRUE,
     cct_range |-> <<2700, 6500>>, infinity |-> TRUE]

\* the sessions constructed: advertised name, model_info argument, address, platform
Devices ==
    { [name |-> <<"N", "E", "E", "W", "E", "R", "-", "R", "G", "B", "6", "6", "0">>, model_info |-> None, address |-> GoodAddress, system |-> "Linux"],
      [name |-> <<"N", "E", "E", "W", "E", "R", "-", "S", "N", "L", "6", "6", "0">>, model_info |-> None, address |-> GoodAddress, system |-> "Linux"],
      [name |-> <<"N", "W", "-", "2", "0", "2", "3", "0", "0", "8", "0">>, model_info |-> None, address |-> GoodAddress, system |-> "Darwin"],
      [name |-> <<"N", "e", "e", "w", "e", "r", "-", "g", "l", "1">>, model_info |-> None, address |-> GoodAddress, system |-> "Linux"],
      [name |-> <<"N", "E", "E", "W", "E", "R", "-", "X", "Y", "Z">>, model_info |-> None, address |-> GoodAddress, system |-> "Linux"],
      [name |-> <<"N", "W", "-", "2", "0", "2", "3", "0", "0", "8", "0">>, model_info |-> Some(ExplicitInfinityInfo), address |-> GoodAddress,
       system |-> "Linux"],
      [name |-> <<"N", "W", "-", "2", "0", "2", "3", "0", "0", "8", "0">>, model_info |-> Some(ExplicitInfinityInfo), address |-> GoodAddress,
       system |-> "Darwin"] }

ConcDevices ==
    {d \in Devices : d.name = <<"N", "E", "E", "W", "E", "R", "-", "S", "N", "L", "6", "6", "0">>}

\* ------------------------------------------------------- session plumbing

\* LightState as one value
LS ==
    [is_on |-> _is_on, brightness |-> _brightness, color_temp |-> _color_temp,
     hue |-> _hue, saturation |-> _saturation]

\* a caller's locals while it is not inside the session
IdleTask ==
    [pc |-> "idle", frame |-> <<>>, rest |-> <<>>, h |-> 0, attempts |-> 0,
     pend |-> "none", insend |-> FALSE]

NoCall ==
    [op |-> [name |-> "none"], sent |-> <<>>, tlog |-> <<>>, ret |-> "none",
     looked |-> FALSE]

\* the session as caller t sees it at the start of a step
Cur(t) ==
    [client |-> _client, connected |-> _connected, lock |-> _lock, open |-> open,
     ls |-> LS, tk |-> task[t], hs |-> hist[t], trace |-> trace_on]

\* the step of caller t ends in r
Commit(t, r) ==
    /\ _client' = r.client
    /\ _connected' = r.connected
    /\ _lock' = r.lock
    /\ open' = r.open
    /\ _is_on' = r.ls.is_on
    /\ _brightness' = r.ls.brightness
    /\ _color_temp' = r.ls.color_temp
    /\ _hue' = r.ls.hue
    /\ _saturation' = r.ls.saturation
    /\ task' = [task EXCEPT ![t] = r.tk]
    /\ hist' = [hist EXCEPT ![t] = r.hs]

\* the step of caller t ends in the value of result, computed once
Done(t, result) == \E r \in {result} : Commit(t, r)

\* the transport-call log of r's caller after event ev, when calls are being logged
Logged(r, ev) == IF r.trace THEN Append(r.hs.tlog, ev) ELSE r.hs.tlog

is_connected(r) == r.connected /\ r.client # None /\ r.client[1] \in r.open

\* mutant: release frees the lock without waking the callers waiting for it
LockRelease_Drop(lock) == [owner |-> "free", waiters |-> <<>>]

\* asyncio.Lock.release: the lock passes to the longest-waiting caller
LockRelease(lock) ==
    IF lock.waiters = <<>>
    THEN [owner |-> "free", waiters |-> <<>>]
    ELSE [owner |-> Head(lock.waiters), waiters |-> Tail(lock.waiters)]

\* the public operation returns val ("True", "False", "None") or raises ("raised")
Return(t, r, val) ==
    [r EXCEPT !.tk = IdleTask, !.hs.ret = IF r.trace THEN val ELSE @]

\* the public operation op starts with LightState ls
Begin(t, op, ls) ==
    [Cur(t) EXCEPT !.ls = ls,
                   !.hs = IF trace_on
                          THEN [op |-> op, sent |-> <<>>, tlog |-> <<>>, ret |-> "pending",
                                looked |-> FALSE]
                          ELSE @]

\* the second and third frame of the Standard turn_on, built when their turn comes
NextFrame(tag, ls) ==
    IF tag = "bri"
    THEN _build_brightness_only_command(ls.brightness)
    ELSE _build_temp_only_command(ls.color_temp)

RECURSIVE SendReturned(_, _, _)

\* disconnect() has returned to its caller
DisconnectReturned(t, r) ==
    IF r.tk.insend THEN SendReturned(t, r, r.tk.pend) ELSE Return(t, r, "None")

\* disconnect(), holding the lock
DisconnectLocked(t, r) ==
    IF r.client # None
    THEN [r EXCEPT !.tk.pc = "disconnecting", !.tk.h = r.client[1],
                   !.hs.tlog = Logged(r, "disconnect")]
    ELSE DisconnectReturned(t, [r EXCEPT !.lock = LockRelease(@)])

\* disconnect() up to its first suspension
EnterDisconnect(t, r) ==
    IF r.lock.owner = "free"
    THEN DisconnectLocked(t, [r EXCEPT !.lock.owner = t])
    ELSE [r EXCEPT !.lock.waiters = Append(@, t), !.tk.pc = "wait_disconnect"]

\* _send_command after connect() returned True: bytes(command), then the write
IssueWrite(t, r) ==
    IF \A i \in 1..Len(r.tk.frame) : r.tk.frame[i] \in 0..255
    THEN [r EXCEPT !.tk.pc = "writing", !.tk.h = r.client[1],
                   !.hs.tlog = Logged(r, "write")]
    ELSE EnterDisconnect(t, [r EXCEPT !.tk.pend = "raise"])

\* mutant: connect() without the already-connected fast path
EnterConnect_NoFastPath(t, r) ==
    IF r.lock.owner = "free"
    THEN [r EXCEPT !.lock.owner = t, !.tk.pc = "establishing", !.tk.attempts = 0,
                   !.hs.tlog = Logged(r, "connect")]
    ELSE [r EXCEPT !.lock.waiters = Append(@, t), !.tk.pc = "wait_connect"]

\* connect() up to its first suspension
EnterConnect(t, r) ==
    IF is_connected(r)
    THEN IF r.tk.insend THEN IssueWrite(t, r) ELSE Return(t, r, "True")
    ELSE IF r.lock.owner = "free"
         THEN [r EXCEPT !.lock.owner = t, !.tk.pc = "establishing", !.tk.attempts = 0,
                        !.hs.tlog = Logged(r, "connect")]
         ELSE [r EXCEPT !.lock.waiters = Append(@, t), !.tk.pc = "wait_connect"]

\* _send_command(frame) is called; rest names the frames the operation sends after it
StartSend(t, r, frame, rest) ==
    EnterConnect(t, [r EXCEPT !.tk.frame = frame, !.tk.rest = rest,
                              !.tk.insend = TRUE, !.tk.pend = "none"])

\* _send_command has returned res ("True", "False") or raised ("raise")
SendReturned(t, r, res) ==
    LET r1 == [r EXCEPT !.hs.sent = IF r.trace
                                    THEN Append(@, [frame |-> r.tk.frame, res |-> res])
                                    ELSE @]
    IN  IF res = "raise" THEN Return(t, r1, "raised")
        ELSE IF r.tk.rest = <<>> THEN Return(t, r1, res)
        ELSE StartSend(t, r1, NextFrame(Head(r.tk.rest), r.ls), Tail(r.tk.rest))

\* connect() has returned ok to its caller
ConnectReturned(t, r, ok) ==
    IF ~r.tk.insend THEN Return(t, r, IF ok THEN "True" ELSE "False")
    ELSE IF ok THEN IssueWrite(t, r)
    ELSE SendReturned(t, r, "False")

\* mutant: a failed write returns at once, without the finally clause's disconnect
WriteReturned_NoFinally(t, r, outcome) ==
    IF outcome = "ok"
    THEN EnterDisconnect(t, [r EXCEPT !.tk.h = 0, !.tk.pend = "True"])
    ELSE SendReturned(t, [r EXCEPT !.connected = FALSE, !.tk.h = 0],
                      IF outcome = "BleakError" THEN "False" ELSE "raise")

\* mutant: a failed write rolls the optimistic is_on back
WriteReturned_Rollback(t, r, outcome) ==
    EnterDisconnect(t,
        [r EXCEPT !.connected = IF outcome = "BleakError" THEN FALSE ELSE @,
                  !.ls.is_on = IF outcome = "ok" THEN @ ELSE FALSE,
                  !.tk.h = 0,
                  !.tk.pend = CASE outcome = "ok" -> "True"
                                [] outcome = "BleakError" -> "False"
                                [] OTHER -> "raise"])

\* mutant: a successful write keeps the link up while the command has frames left
WriteReturned_KeepsLink(t, r, outcome) ==
    IF outcome = "ok" /\ r.tk.rest # <<>>
    THEN SendReturned(t, [r EXCEPT !.tk.h = 0], "True")
    ELSE EnterDisconnect(t,
             [r EXCEPT !.connected = IF outcome = "BleakError" THEN FALSE ELSE @,
                       !.tk.h = 0,
                       !.tk.pend = CASE outcome = "ok" -> "True"
                                     [] outcome = "BleakError" -> "False"
                                     [] OTHER -> "raise"])

\* _send_command's except and finally clauses, once the write ended in outcome
WriteReturned(t, r, outcome) ==
    EnterDisconnect(t,
        [r EXCEPT !.connected = IF outcome = "BleakError" THEN FALSE ELSE @,
                  !.tk.h = 0,
                  !.tk.pend = CASE outcome = "ok" -> "True"
                                [] outcome = "BleakError" -> "False"
                                [] OTHER -> "raise"])

\* whether a frame builder of this session calls the profiler side channel
NeedsLookup ==
    /\ uses_infinity_protocol(_model_info)
    /\ platform_system = "Darwin"
    /\ _hw_mac_address = None

\* what the side channel may answer when a builder runs (built: a frame is built)
LookupChoices(built) == IF built /\ NeedsLookup THEN ProfilerFields ELSE {None}

\* the MAC bytes a builder embeds; Standard builders never ask for them
MacBytes(built, mac_str) ==
    IF built /\ uses_infinity_protocol(_model_info)
    THEN _get_mac_bytes(_model_info, platform_system, _hw_mac_address, _address, mac_str)
    ELSE [bytes |-> <<>>, hw |-> _hw_mac_address, raised |-> FALSE, looked |-> FALSE]

\* the call record notes whether the builder called _get_hardware_mac_macos
Looked(r, m) == [r EXCEPT !.hs.looked = IF r.trace THEN m.looked ELSE @]

\* the smallest handle nothing refers to
Referenced ==
    open \cup {task[u].h : u \in Tasks} \cup (IF _client = None THEN {} ELSE {_client[1]})

FreeHandles == Handles \ Referenced

\* ------------------------------------------------------ public operations

turn_on(t, brightness, color_temp_kelvin, hue, saturation) ==
    /\ task[t].pc = "idle"
    /\ LET info == _model_info
           hsi == supports_rgb(info) /\ hue # None
           ls1 == [LS EXCEPT
                     !.is_on = TRUE,
                     !.brightness = IF brightness # None
                                    THEN Clamp(0, 100, brightness[1]) ELSE @,
                     !.color_temp = IF color_temp_kelvin # None
                                    THEN _kelvin_to_internal(info, color_temp_kelvin[1])
                                    ELSE @]
           ls2 == IF hsi
                  THEN [ls1 EXCEPT
                          !.hue = Clamp(0, 360, hue[1]),
                          !.saturation = IF saturation # None
                                         THEN Clamp(0, 100, saturation[1]) ELSE @]
                  ELSE ls1
           op == [name |-> "turn_on", brightness |-> brightness,
                  kelvin |-> color_temp_kelvin, hue |-> hue, saturation |-> saturation]
           r0 == Begin(t, op, ls2)
       IN  \E mac_str \in LookupChoices(TRUE) :
             \E m \in {MacBytes(TRUE, mac_str)} :
                 /\ _hw_mac_address' = m.hw
                 /\ Done(t,
                      IF m.raised THEN Return(t, Looked(r0, m), "raised")
                      ELSE IF hsi
                      THEN StartSend(t, Looked(r0, m),
                             _build_hsi_command(info, m.bytes, ls2.hue, ls2.saturation,
                                                ls2.brightness), <<>>)
                      ELSE IF uses_infinity_protocol(info)
                      THEN StartSend(t, Looked(r0, m),
                             _build_cct_command(info, m.bytes, ls2.brightness,
                                                ls2.color_temp), <<>>)
                      ELSE StartSend(t, Looked(r0, m), _build_power_command(info, m.bytes, TRUE),
                                     <<"bri", "temp">>))
    /\ UNCHANGED config

\* mutant: turn_off dims to zero with a brightness frame instead of powering off
turn_off_dim(t) ==
    /\ task[t].pc = "idle"
    /\ LET r0 == Begin(t, [name |-> "turn_off"], [LS EXCEPT !.is_on = FALSE])
       IN  \E mac_str \in LookupChoices(TRUE) :
             \E m \in {MacBytes(TRUE, mac_str)} :
                 /\ _hw_mac_address' = m.hw
                 /\ Done(t,
                      IF m.raised THEN Return(t, Looked(r0, m), "raised")
                      ELSE IF uses_infinity_protocol(_model_info)
                      THEN StartSend(t, Looked(r0, m),
                             _build_cct_command(_model_info, m.bytes, 0, LS.color_temp), <<>>)
                      ELSE StartSend(t, Looked(r0, m), _build_brightness_only_command(0), <<>>))
    /\ UNCHANGED config

turn_off(t) ==
    /\ task[t].pc = "idle"
    /\ LET r0 == Begin(t, [name |-> "turn_off"], [LS EXCEPT !.is_on = FALSE])
       IN  \E mac_str \in LookupChoices(TRUE) :
             \E m \in {MacBytes(TRUE, mac_str)} :
                 /\ _hw_mac_address' = m.hw
                 /\ Done(t,
                      IF m.raised THEN Return(t, Looked(r0, m), "raised")
                      ELSE StartSend(t, Looked(r0, m),
                             _build_power_command(_model_info, m.bytes, FALSE), <<>>))
    /\ UNCHANGED config

set_brightness(t, brightness) ==
    /\ task[t].pc = "idle"
    /\ LET ls1 == [LS EXCEPT !.brightness = Clamp(0, 100, brightness),
                             !.is_on = brightness > 0]
           r0 == Begin(t, [name |-> "set_brightness", brightness |-> brightness], ls1)
       IN  \E mac_str \in LookupChoices(TRUE) :
             \E m \in {MacBytes(TRUE, mac_str)} :
                 /\ _hw_mac_address' = m.hw
                 /\ Done(t,
                      IF m.raised THEN Return(t, Looked(r0, m), "raised")
                      ELSE IF uses_infinity_protocol(_model_info)
                      THEN StartSend(t, Looked(r0, m),
                             _build_cct_command(_model_info, m.bytes, ls1.brightness,
                                                ls1.color_temp), <<>>)
                      ELSE StartSend(t, Looked(r0, m),
                             _build_brightness_only_command(ls1.brightness), <<>>))
    /\ UNCHANGED config

set_color_temp(t, kelvin) ==
    /\ task[t].pc = "idle"
    /\ LET ls1 == [LS EXCEPT !.color_temp = _kelvin_to_internal(_model_info, kelvin)]
           r0 == Begin(t, [name |-> "set_color_temp", kelvin |-> kelvin], ls1)
       IN  \E mac_str \in LookupChoices(ls1.is_on) :
             \E m \in {MacBytes(ls1.is_on, mac_str)} :
                 /\ _hw_mac_address' = m.hw
                 /\ Done(t,
                      IF ~ls1.is_on THEN Return(t, Looked(r0, m), "True")
                      ELSE IF m.raised THEN Return(t, Looked(r0, m), "raised")
                      ELSE IF uses_infinity_protocol(_model_info)
                      THEN StartSend(t, Looked(r0, m),
                             _build_cct_command(_model_info, m.bytes, ls1.brightness,
                                                ls1.color_temp), <<>>)
                      ELSE StartSend(t, Looked(r0, m),
                             _build_temp_only_command(ls1.color_temp), <<>>))
    /\ UNCHANGED config

\* mutant: set_rgb without the capability check
set_rgb_unchecked(t, hue, saturation, brightness) ==
    /\ task[t].pc = "idle"
    /\ LET ls1 == [LS EXCEPT
                     !.hue = Clamp(0, 360, hue),
                     !.saturation = Clamp(0, 100, saturation),
                     !.brightness = IF brightness # None
                                    THEN Clamp(0, 100, brightness[1]) ELSE @,
                     !.is_on = TRUE]
           op == [name |-> "set_rgb", hue |-> hue, saturation |-> saturation,
                  brightness |-> brightness]
       IN  \E mac_str \in LookupChoices(TRUE) :
             \E m \in {MacBytes(TRUE, mac_str)} :
                 /\ _hw_mac_address' = m.hw
                 /\ Done(t,
                      IF m.raised THEN Return(t, Looked(Begin(t, op, ls1), m), "raised")
                      ELSE StartSend(t, Looked(Begin(t, op, ls1), m),
                             _build_hsi_command(_model_info, m.bytes, ls1.hue,
                                                ls1.saturation, ls1.brightness), <<>>))
    /\ UNCHANGED config

set_rgb(t, hue, saturation, brightness) ==
    /\ task[t].pc = "idle"
    /\ LET rgb == supports_rgb(_model_info)
           ls1 == [LS EXCEPT
                     !.hue = Clamp(0, 360, hue),
                     !.saturation = Clamp(0, 100, saturation),
                     !.brightness = IF brightness # None
                                    THEN Clamp(0, 100, brightness[1]) ELSE @,
                     !.is_on = TRUE]
           op == [name |-> "set_rgb", hue |-> hue, saturation |-> saturation,
                  brightness |-> brightness]
       IN  \E mac_str \in LookupChoices(rgb) :
             \E m \in {MacBytes(rgb, mac_str)} :
                 /\ _hw_mac_address' = m.hw
                 /\ Done(t,
                      IF ~rgb THEN Return(t, Looked(Begin(t, op, LS), m), "False")
                      ELSE IF m.raised THEN Return(t, Looked(Begin(t, op, ls1), m), "raised")
                      ELSE StartSend(t, Looked(Begin(t, op, ls1), m),
                             _build_hsi_command(_model_info, m.bytes, ls1.hue,
                                                ls1.saturation, ls1.brightness), <<>>))
    /\ UNCHANGED config

connect(t) ==
    /\ task[t].pc = "idle"
    /\ Done(t, EnterConnect(t, Begin(t, [name |-> "connect"], LS)))
    /\ UNCHANGED <<config, _hw_mac_address>>

disconnect(t) ==
    /\ task[t].pc = "idle"
    /\ Done(t, EnterDisconnect(t, Begin(t, [name |-> "disconnect"], LS)))
    /\ UNCHANGED <<config, _hw_mac_address>>

\* -------------------------------------------------- transport completions

\* mutant: a connect() out of attempts leaves _client and _connected as they were
EstablishAttempt_KeepsHandle(t) ==
    /\ task[t].pc = "establishing"
    /\ \E outcome \in {"ok", "fail"} :
         LET r == Cur(t)
         IN  IF outcome = "ok"
             THEN /\ FreeHandles # {}
                  /\ LET h == CHOOSE x \in FreeHandles : \A y \in FreeHandles : x <= y
                     IN  Done(t, ConnectReturned(t,
                             [r EXCEPT !.client = Some(h), !.connected = TRUE,
                                       !.open = @ \cup {h}, !.lock = LockRelease(@)],
                             TRUE))
             ELSE IF r.tk.attempts + 1 < MAX_CONNECTION_RETRIES
             THEN Done(t, [r EXCEPT !.tk.attempts = @ + 1])
             ELSE Done(t, ConnectReturned(t, [r EXCEPT !.lock = LockRelease(@)], FALSE))
    /\ UNCHANGED <<config, _hw_mac_address>>

\* one connection attempt of establish_connection(max_attempts=3) ends
EstablishAttempt(t) ==
    /\ task[t].pc = "establishing"
    /\ \E outcome \in {"ok", "fail"} :
         LET r == Cur(t)
         IN  IF outcome = "ok"
             THEN /\ FreeHandles # {}
                  /\ LET h == CHOOSE x \in FreeHandles : \A y \in FreeHandles : x <= y
                     IN  Done(t, ConnectReturned(t,
                             [r EXCEPT !.client = Some(h), !.connected = TRUE,
                                       !.open = @ \cup {h}, !.lock = LockRelease(@)],
                             TRUE))
             ELSE IF r.tk.attempts + 1 < MAX_CONNECTION_RETRIES
             THEN Done(t, [r EXCEPT !.tk.attempts = @ + 1])
             ELSE Done(t, ConnectReturned(t,
                      [r EXCEPT !.client = None, !.connected = FALSE,
                                !.lock = LockRelease(@)],
                      FALSE))
    /\ UNCHANGED <<config, _hw_mac_address>>

WriteOutcomes == {"ok", "BleakError", "Exception"}

\* write_gatt_char ends: it wrote, raised BleakError, or raised another exception
WriteDone(t) ==
    /\ task[t].pc = "writing"
    /\ \E outcome \in WriteOutcomes :
         /\ outcome = "ok" => task[t].h \in open
         /\ Done(t, WriteReturned(t, Cur(t), outcome))
    /\ UNCHANGED <<config, _hw_mac_address>>

\* mutant: disconnect() drops the handle and leaves the connected flag set
DisconnectDone_KeepsFlag(t) ==
    /\ task[t].pc = "disconnecting"
    /\ \E outcome \in {"ok", "error"} :
         LET r == Cur(t)
         IN  Done(t, DisconnectReturned(t,
                 [r EXCEPT !.open = @ \ {r.tk.h}, !.client = None,
                           !.lock = LockRelease(@), !.tk.h = 0]))
    /\ UNCHANGED <<config, _hw_mac_address>>

\* mutant: a transport disconnect that raises skips the clearing of the handle
DisconnectDone_ErrorKeeps(t) ==
    /\ task[t].pc = "disconnecting"
    /\ \E outcome \in {"ok", "error"} :
         LET r == Cur(t)
         IN  Done(t, DisconnectReturned(t,
                 IF outcome = "ok"
                 THEN [r EXCEPT !.open = @ \ {r.tk.h}, !.client = None,
                                !.connected = FALSE,
                                !.lock = LockRelease(@), !.tk.h = 0]
                 ELSE [r EXCEPT !.open = @ \ {r.tk.h},
                                !.lock = LockRelease(@), !.tk.h = 0]))
    /\ UNCHANGED <<config, _hw_mac_address>>

\* the transport disconnect ends (an error is logged and swallowed), then the
\* finally clause of disconnect()
DisconnectDone(t) ==
    /\ task[t].pc = "disconnecting"
    /\ \E outcome \in {"ok", "error"} :
         LET r == Cur(t)
         IN  Done(t, DisconnectReturned(t,
                 [r EXCEPT !.open = @ \ {r.tk.h}, !.client = None, !.connected = FALSE,
                           !.lock = LockRelease(@), !.tk.h = 0]))
    /\ UNCHANGED <<config, _hw_mac_address>>

\* a caller suspended in `async with self._lock` is handed the lock and resumes
LockAcquired(t) ==
    /\ task[t].pc \in {"wait_connect", "wait_disconnect"}
    /\ _lock.owner = t
    /\ Done(t,
         IF task[t].pc = "wait_connect"
         THEN [Cur(t) EXCEPT !.tk.pc = "establishing", !.tk.attempts = 0,
                             !.hs.tlog = Logged(Cur(t), "connect")]
         ELSE DisconnectLocked(t, Cur(t)))
    /\ UNCHANGED <<config, _hw_mac_address>>

\* the BLE link of an open connection drops
LinkDrop ==
    /\ \E h \in open : open' = open \ {h}
    /\ UNCHANGED <<config, _hw_mac_address, light, _client, _connected, _lock, task, hist>>

\* ------------------------------------------- codec functions on their own

\* no codec function applied yet
NoCalc == [fn |-> "none"]

\* everything but calc
session ==
    <<_name, _address, _model_info, platform_system, trace_on, _hw_mac_address,
      light, _client, _connected, _lock, open, task, hist>>

\* the ModelInfo values the catalog and the fallback can resolve to
CatalogInfos ==
    {SUPPORTED_MODELS[i].info : i \in 1..Len(SUPPORTED_MODELS)} \cup {DefaultModelInfo}

\* one Standard and one Infinity ModelInfo for the frame builders
CodecInfos == {DefaultModelInfo, ExplicitInfinityInfo}

\* kelvin arguments reach this far outside a device's range
KelvinMargin == 2

KelvinInputs(info) ==
    (color_temp_range(info)[1] - KelvinMargin)..(color_temp_range(info)[2] + KelvinMargin)

\* elements and longest length of the lists handed to _calculate_checksum
ByteSamples == {-128, -1, 0, 1, 120, 255}

MaxChecksumLen == 3

RECURSIVE ListsUpTo(_)
ListsUpTo(n) ==
    IF n = 0 THEN {<<>>}
    ELSE LET shorter == ListsUpTo(n - 1)
         IN  shorter \cup {Append(l, b) : l \in {x \in shorter : Len(x) = n - 1},
                                         b \in ByteSamples}

ChecksumInputs == ListsUpTo(MaxChecksumLen)

OtherAddress == <<"0", "0", "-", "1", "1", "-", "2", "2", "-", "3", "3", "-", "4", "4", "-", "5", "5">>

CodecAddresses == {GoodAddress, OtherAddress}

\* the MAC bytes a builder of a session with this ModelInfo and address embeds
\* (no platform lookup); Standard builders embed none
CodecMacs(info) ==
    IF uses_infinity_protocol(info)
    THEN {_get_mac_bytes(info, "Linux", None, a, None).bytes : a \in CodecAddresses}
    ELSE {<<>>}

Percents == 0..100

SaturationSamples == {0, 50, 100}

HueInputs == 0..360

\* a codec function is applied once; calc records its arguments and result
Applied(record) ==
    /\ calc.fn = "none"
    /\ calc' = record
    /\ UNCHANGED session

Call_kelvin_to_internal(info, kelvin) ==
    \E internal \in {_kelvin_to_internal(info, kelvin)} :
        Applied([fn |-> "_kelvin_to_internal", range |-> color_temp_range(info),
                 kelvin |-> kelvin, internal |-> internal,
                 back |-> _internal_to_kelvin(info, internal)])

Call_calculate_checksum(data) ==
    Applied([fn |-> "_calculate_checksum", data |-> data,
             out |-> _calculate_checksum(data)])

Call_build_cct_command(info, mac, brightness, color_temp) ==
    Applied([fn |-> "_build_cct_command", infinity |-> uses_infinity_protocol(info),
             mac |-> mac, brightness |-> brightness, color_temp |-> color_temp,
             frame |-> _build_cct_command(info, mac, brightness, color_temp)])

Call_build_hsi_command(info, mac, hue, saturation, intensity) ==
    Applied([fn |-> "_build_hsi_command", infinity |-> uses_infinity_protocol(info),
             mac |-> mac, hue |-> hue, saturation |-> saturation, intensity |-> intensity,
             frame |-> _build_hsi_command(info, mac, hue, saturation, intensity)])

Call_build_power_command(info, mac, on) ==
    Applied([fn |-> "_build_power_command", infinity |-> uses_infinity_protocol(info),
             mac |-> mac, on |-> on,
             frame |-> _build_power_command(info, mac, on)])

Call_build_brightness_only_command(brightness) ==
    Applied([fn |-> "_build_brightness_only_command", infinity |-> FALSE,
             brightness |-> brightness,
             frame |-> _build_brightness_only_command(brightness)])

Call_build_temp_only_command(color_temp) ==
    Applied([fn |-> "_build_temp_only_command", infinity |-> FALSE,
             color_temp |-> color_temp,
             frame |-> _build_temp_only_command(color_temp)])

\* advertised names handed to _detect_model
DetectNames ==
    { <<"N", "E", "E", "W", "E", "R", "-", "R", "G", "B", "5", "3", "0", "P", "R", "O">>,
      <<"N", "E", "E", "W", "E", "R", "-", "R", "G", "B", "6", "6", "0", "P", "R", "O">>,
      <<"N", "E", "E", "W", "E", "R", "-", "R", "G", "B", "6", "6", "0">>,
      <<"N", "e", "e", "w", "e", "r", "-", "g", "l", "1">>,
      <<"n", "w", "-", "s", "l", "-", "8", "0">>,
      <<"N", "W", "-", "2", "0", "2", "3", "0", "0", "8", "0">>,
      <<"N", "E", "E", "W", "E", "R", "-", "T", "L", "6", "0", " ", "R", "G", "B">>,
      <<"N", "E", "E", "W", "E", "R", "-", "X", "Y", "Z">>,
      <<>> }

\* a platform UUID: five dash-delimited parts
ShortAddress == <<"1", "2", "3", "4", "5", "6", "7", "8", "-", "A", "B", "C", "D", "-", "E", "F", "0", "1", "-", "2", "3", "4", "5", "-", "6", "7", "8", "9", "A", "B", "C", "D", "E", "F", "0", "1">>

\* six parts that are not hex
NonHexAddress == <<"G", "G", ":", "H", "H", ":", "I", "I", ":", "J", "J", ":", "K", "K", ":", "L", "L">>

\* six hex parts, the first above 0xFF
WideAddress == <<"1", "A", "A", ":", "B", "B", ":", "C", "C", ":", "D", "D", ":", "E", "E", ":", "F", "F">>

MacAddresses == {GoodAddress, OtherAddress, ShortAddress, NonHexAddress, WideAddress}

MacSystems == {"Linux", "Darwin"}

Call_detect_model(adv_name) ==
    Applied([fn |-> "_detect_model", adv_name |-> adv_name,
             info |-> _detect_model(adv_name)])

Call_get_mac_bytes(info, system, address, mac_str) ==
    \E got \in {_get_mac_bytes(info, system, None, address, mac_str)} :
        Applied([fn |-> "_get_mac_bytes", infinity |-> uses_infinity_protocol(info),
                 system |-> system, address |-> address, mac_str |-> mac_str,
                 bytes |-> got.bytes, hw |-> got.hw, raised |-> got.raised])

\* ------------------------------------------------------- specifications

InitOf(devices, trace) ==
    /\ trace_on = trace
    /\ \E d \in devices :
         /\ _name = d.name
         /\ _address = d.address
         /\ platform_system = d.system
         /\ _model_info = IF d.model_info # None THEN d.model_info[1]
                          ELSE _detect_model(d.name)
    /\ _hw_mac_address = None
    /\ _is_on = FALSE
    /\ _brightness = 100
    /\ _color_temp = 56
    /\ _hue = 0
    /\ _saturation = 100
    /\ _client = None
    /\ _connected = FALSE
    /\ _lock = [owner |-> "free", waiters |-> <<>>]
    /\ open = {}
    /\ task = [t \in Tasks |-> IdleTask]
    /\ hist = [t \in Tasks |-> NoCall]
    /\ calc = NoCalc

Init == InitOf(Devices, TRUE)

InitConc == InitOf(ConcDevices, FALSE)

\* a single caller
Next ==
    \/ \E t \in SeqTasks :
         \/ \E b \in BrightnessArgs, k \in KelvinArgs, hs \in HueSatArgs :
              turn_on(t, b, k, hs[1], hs[2])
         \/ turn_off(t)
         \/ \E b \in SetBrightnessArgs : set_brightness(t, b)
         \/ \E k \in SetKelvinArgs : set_color_temp(t, k)
         \/ \E b \in BrightnessArgs : set_rgb(t, 120, 50, b)
         \/ connect(t)
         \/ disconnect(t)
         \/ EstablishAttempt(t)
         \/ WriteDone(t)
         \/ DisconnectDone(t)
    \/ LinkDrop

Spec == Init /\ [][Next]_vars

\* two concurrent callers: A issues light commands, B powers off and manages the link
NextConc ==
    \/ turn_on("A", None, None, None, None)
    \/ set_brightness("A", 80)
    \/ set_color_temp("A", 4000)
    \/ set_rgb("A", 120, 50, None)
    \/ turn_off("B")
    \/ connect("B")
    \/ disconnect("B")
    \/ \E t \in Tasks :
         \/ EstablishAttempt(t)
         \/ WriteDone(t)
         \/ DisconnectDone(t)
         \/ LockAcquired(t)
    \/ LinkDrop

SpecConc == InitConc /\ [][NextConc]_vars

\* the two concurrent callers again, with every transport call returning or
\* failing in the end and every caller that was handed the lock resumed
InitLive == InitOf(ConcDevices, FALSE)

NextLive ==
    \/ turn_on("A", None, None, None, None)
    \/ turn_off("B")
    \/ connect("B")
    \/ disconnect("B")
    \/ \E t \in Tasks :
         \/ EstablishAttempt(t)
         \/ WriteDone(t)
         \/ DisconnectDone(t)
         \/ LockAcquired(t)
    \/ LinkDrop

Fairness ==
    \A t \in Tasks :
        /\ WF_vars(EstablishAttempt(t))
        /\ WF_vars(WriteDone(t))
        /\ WF_vars(DisconnectDone(t))
        /\ WF_vars(LockAcquired(t))

SpecLive == InitLive /\ [][NextLive]_vars /\ Fairness

\* light commands of a single caller with arguments inside and outside the
\* documented ranges, on an RGB device, a bi-color device and an Infinity session
ArgsDevices ==
    {d \in Devices :
        /\ d.system = "Linux"
        /\ \/ d.name = <<"N", "E", "E", "W", "E", "R", "-", "R", "G", "B", "6", "6", "0">>
           \/ d.name = <<"N", "e", "e", "w", "e", "r", "-", "g", "l", "1">>
           \/ d.model_info # None}

WideBrightness == {-5, 80, 150}

WideKelvin == {1000, 4000, 9000}

WideHue == {-10, 120, 360, 400}

WideSaturation == {-1, 50, 101}

\* an optional argument: absent, or any of the values
Optional(values) == {None} \cup {Some(v) : v \in values}

InitArgs == InitOf(ArgsDevices, FALSE)

NextArgs ==
    \E t \in SeqTasks :
        \/ \E b \in Optional(WideBrightness), k \in Optional(WideKelvin),
              h \in Optional(WideHue), s \in Optional(WideSaturation) :
             turn_on(t, b, k, h, s)
        \/ turn_off(t)
        \/ \E b \in WideBrightness : set_brightness(t, b)
        \/ \E k \in WideKelvin : set_color_temp(t, k)
        \/ \E h \in WideHue, s \in WideSaturation, b \in Optional(WideBrightness) :
             set_rgb(t, h, s, b)
        \/ EstablishAttempt(t)
        \/ WriteDone(t)
        \/ DisconnectDone(t)

SpecArgs == InitArgs /\ [][NextArgs]_vars

\* the codec functions, each applied once to arguments of its domain
InitCodec == InitOf(ConcDevices, FALSE)

NextCodec ==
    \/ calc.fn = "none" /\ \E info \in CatalogInfos : \E kelvin \in KelvinInputs(info) :
         Call_kelvin_to_internal(info, kelvin)
    \/ calc.fn = "none" /\ \E data \in ChecksumInputs : Call_calculate_checksum(data)
    \/ calc.fn = "none" /\ \E info \in CodecInfos : \E mac \in CodecMacs(info) :
         \E b \in Percents, t \in Percents : Call_build_cct_command(info, mac, b, t)
    \/ calc.fn = "none" /\ \E info \in CodecInfos : \E mac \in CodecMacs(info) :
         \E h \in HueInputs, s \in SaturationSamples, i \in SaturationSamples :
             Call_build_hsi_command(info, mac, h, s, i)
    \/ calc.fn = "none" /\ \E info \in CodecInfos : \E mac \in CodecMacs(info) :
         \E on \in BOOLEAN : Call_build_power_command(info, mac, on)
    \/ calc.fn = "none" /\ \E b \in Percents : Call_build_brightness_only_command(b)
    \/ calc.fn = "none" /\ \E t \in Percents : Call_build_temp_only_command(t)
    \/ calc.fn = "none" /\ \E adv_name \in DetectNames : Call_detect_model(adv_name)
    \/ calc.fn = "none" /\ \E info \in CodecInfos, system \in MacSystems :
         \E address \in MacAddresses, mac_str \in ProfilerFields :
             Call_get_mac_bytes(info, system, address, mac_str)

SpecCodec == InitCodec /\ [][NextCodec]_vars

\* ================================================================ claims

LightCommands == {"turn_on", "turn_off", "set_brightness", "set_color_temp", "set_rgb"}

\* the public operation caller t last called has returned or raised
Returned(t) == hist[t].ret \notin {"none", "pending"}

\* caller t is between the success of its command's connect() and the end of
\* that command's disconnect()
InWindow(t) ==
    task[t].insend /\ task[t].pc \in {"writing", "wait_disconnect", "disconnecting"}

\* caller t has a transport connect, write or disconnect in flight
OnTransport(t) == task[t].pc \in {"establishing", "writing", "disconnecting"}

\* C1: concurrent commands are serialized by the session lock: while one
\* command is between its successful connect() and the end of its
\* disconnect(), no other caller has a transport connect, write or disconnect
\* in flight on the session.
C1_Serialized ==
    \A t \in Tasks, u \in Tasks : (t # u /\ InWindow(t)) => ~OnTransport(u)

\* C2: at most one transport connection opened by the session is live; a
\* connection is never overwritten in _client while it is still open.
C2_AtMostOneLive == Cardinality(open) <= 1

\* C3: every public operation ends by returning a value and never propagates
\* an exception to its caller, whatever the transport does.
C3_NoRaise == \A t \in Tasks : hist[t].ret # "raised"

\* every write in the transport-call log is directly followed by a disconnect
WriteThenDisconnect(log) ==
    \A i \in 1..Len(log) :
        log[i] = "write" => (i < Len(log) /\ log[i + 1] = "disconnect")

Disconnected == _client = None /\ ~_connected

\* C4 as stated: every write of a returned light command was followed by a
\* disconnect, and after any light command returns the session is
\* Disconnected.
C4_DisconnectedAfterCommand ==
    \A t \in SeqTasks :
        (hist[t].op.name \in LightCommands /\ Returned(t)) =>
            (WriteThenDisconnect(hist[t].tlog) /\ Disconnected)

\* C4 amended: every write of a light command that has returned or raised was
\* followed by a disconnect, and after a light command that called
\* _send_command at least once has returned or raised, the session is
\* Disconnected (a command that returns without calling _send_command leaves
\* the connection as it was).
C4_DisconnectAfterWrite ==
    \A t \in SeqTasks :
        (hist[t].op.name \in LightCommands /\ Returned(t)) =>
            /\ WriteThenDisconnect(hist[t].tlog)
            /\ hist[t].sent # <<>> => Disconnected

\* a light command whose write failed has returned, and the session is down
C4_Witness ==
    \E t \in SeqTasks :
        /\ hist[t].op.name \in LightCommands
        /\ hist[t].ret = "False"
        /\ \E i \in 1..Len(hist[t].tlog) : hist[t].tlog[i] = "write"
        /\ Disconnected

LegacyStandard(info) ==
    /\ ~uses_infinity_protocol(info)
    /\ Get(info, "cct_only", FALSE)
    /\ Get(info, "light_type", 0) = 0

\* C5: turn_on in CCT mode on a Standard legacy CCT-only device attempts
\* exactly three frames, power-on (0x81, payload 1), brightness-only (0x82)
\* and temp-only (0x83), in that order whatever fails, and returns the result
\* of the third.
C5_ThreeFramesLastResult ==
    \A t \in SeqTasks :
        (LegacyStandard(_model_info) /\ hist[t].op.name = "turn_on" /\ Returned(t)) =>
            LET sent == hist[t].sent
            IN  /\ Len(sent) = 3
                /\ sent[1].frame[2] = STD_POWER_CMD /\ sent[1].frame[4] = 1
                /\ sent[2].frame[2] = STD_BRI_CMD
                /\ sent[3].frame[2] = STD_TEMP_CMD
                /\ hist[t].ret = sent[3].res

\* a catalog entry of the Standard variant that is not legacy CCT-only
StandardNotLegacy(info) ==
    /\ "cct_only" \in DOMAIN info /\ ~info.cct_only
    /\ info.light_type = 0

\* the command of caller t is turn_on in CCT mode, set_brightness or set_color_temp
CctCommand(t) ==
    \/ hist[t].op.name \in {"set_brightness", "set_color_temp"}
    \/ hist[t].op.name = "turn_on" /\ hist[t].op.hue = None

\* C6: on a Standard device that is not legacy CCT-only, turn_on in CCT mode,
\* set_brightness and set_color_temp emit the combined CCT frame (0x87, length
\* 2) and never the brightness-only (0x82) or temp-only (0x83) frame.
C6_CombinedCctFrame ==
    \A t \in SeqTasks :
        (StandardNotLegacy(_model_info) /\ CctCommand(t)) =>
            \A i \in 1..Len(hist[t].sent) :
                /\ hist[t].sent[i].frame[2] \notin {STD_BRI_CMD, STD_TEMP_CMD}
                /\ hist[t].op.name # "turn_on" =>
                       /\ hist[t].sent[i].frame[2] = STD_CCT_CMD
                       /\ hist[t].sent[i].frame[3] = 2

\* a catalog entry marked as the Infinity protocol
CatalogInfinity(info) == "light_type" \in DOMAIN info /\ info.light_type = 1

\* C7: a device the catalog marks as Infinity emits only Infinity-framed
\* frames: outer opcode 0x8D, 0x90 or 0x8F, then the six MAC bytes.
C7_InfinityFraming ==
    \A t \in SeqTasks :
        CatalogInfinity(_model_info) =>
            \A i \in 1..Len(hist[t].sent) :
                hist[t].sent[i].frame[2] \in {INF_POWER_CMD, INF_CCT_CMD, INF_HSI_CMD}

\* the step is caller t's call of a public operation
CallStep(t) == task[t].pc = "idle" /\ hist'[t] # hist[t]

\* C8: set_rgb on a session whose ModelInfo reports no RGB support returns
\* False, leaves every LightState field unchanged and touches neither the
\* transport nor the connection state.
C8_SetRgbRejected ==
    [][\A t \in SeqTasks :
          (CallStep(t) /\ hist'[t].op.name = "set_rgb" /\ ~supports_rgb(_model_info)) =>
              /\ hist'[t].ret = "False"
              /\ hist'[t].sent = <<>> /\ hist'[t].tlog = <<>>
              /\ task'[t].pc = "idle"
              /\ UNCHANGED <<light, _client, _connected, _lock, open>>]_vars

\* set_rgb was rejected on a session that is on and connected
C8_Witness ==
    \E t \in SeqTasks :
        /\ hist[t].op.name = "set_rgb" /\ ~supports_rgb(_model_info)
        /\ hist[t].ret = "False"
        /\ _is_on /\ _connected /\ _client # None

\* the LightState the claim says a command leaves, from the LightState before
\* it and the command's arguments alone
AfterCommand(info, ls, op) ==
    CASE op.name = "turn_on" ->
           [is_on |-> TRUE,
            brightness |-> IF op.brightness = None THEN ls.brightness
                           ELSE Clamp(0, 100, op.brightness[1]),
            color_temp |-> IF op.kelvin = None THEN ls.color_temp
                           ELSE _kelvin_to_internal(info, op.kelvin[1]),
            hue |-> IF supports_rgb(info) /\ op.hue # None
                    THEN Clamp(0, 360, op.hue[1]) ELSE ls.hue,
            saturation |-> IF supports_rgb(info) /\ op.hue # None /\ op.saturation # None
                           THEN Clamp(0, 100, op.saturation[1]) ELSE ls.saturation]
      [] op.name = "turn_off" -> [ls EXCEPT !.is_on = FALSE]
      [] op.name = "set_brightness" ->
           [ls EXCEPT !.brightness = Clamp(0, 100, op.brightness),
                      !.is_on = op.brightness > 0]
      [] op.name = "set_color_temp" ->
           [ls EXCEPT !.color_temp = _kelvin_to_internal(info, op.kelvin)]
      [] op.name = "set_rgb" /\ supports_rgb(info) ->
           [is_on |-> TRUE,
            brightness |-> IF op.brightness = None THEN ls.brightness
                           ELSE Clamp(0, 100, op.brightness[1]),
            color_temp |-> ls.color_temp,
            hue |-> Clamp(0, 360, op.hue),
            saturation |-> Clamp(0, 100, op.saturation)]
      [] OTHER -> ls

\* C9: LightState is optimistic: the call of a command sets it from the
\* LightState before and the arguments alone, and no later step of the command
\* (connect, write or disconnect, whatever its outcome) changes it.
C9_Optimistic ==
    [][\A t \in SeqTasks :
          IF CallStep(t)
          THEN LS' = AfterCommand(_model_info, LS, hist'[t].op)
          ELSE UNCHANGED light]_vars

\* a three-frame turn_on whose second frame failed has returned; the state holds its target
C9_Witness ==
    \E t \in SeqTasks :
        /\ hist[t].op.name = "turn_on" /\ hist[t].op.brightness = Some(80)
        /\ Len(hist[t].sent) = 3 /\ hist[t].sent[2].res = "False"
        /\ hist[t].ret = "False"
        /\ _is_on /\ _brightness = 80

\* the command of caller t changes LightState
StateMutating(t) ==
    \/ hist[t].op.name \in {"turn_on", "turn_off", "set_brightness", "set_color_temp"}
    \/ hist[t].op.name = "set_rgb" /\ supports_rgb(_model_info)

\* C10: every state-mutating light command, in every prior state, attempts at
\* least one frame after updating LightState and returns the success of the
\* last frame send it attempted.
C10_SendsAndReturnsLast ==
    \A t \in SeqTasks :
        (StateMutating(t) /\ Returned(t)) =>
            /\ Len(hist[t].sent) >= 1
            /\ hist[t].ret = hist[t].sent[Len(hist[t].sent)].res

\* C11 as stated: LightState stays within brightness 0..100, color_temp 0..100,
\* hue 0..359 and saturation 0..100.
C11_RangesHueBelow360 ==
    /\ _brightness \in 0..100
    /\ _color_temp \in 0..100
    /\ _hue \in 0..359
    /\ _saturation \in 0..100

\* C11 amended: after any sequence of light commands with arbitrary integer
\* arguments, brightness, color_temp and saturation are within 0..100 and hue
\* is within 0..360, 360 itself included.
C11_Ranges ==
    /\ _brightness \in 0..100
    /\ _color_temp \in 0..100
    /\ _hue \in 0..360
    /\ _saturation \in 0..100

\* every field sits on a bound that only an out-of-range argument produces
C11_Witness ==
    /\ _brightness = 0 /\ _color_temp = 100 /\ _hue = 360 /\ _saturation = 0
    /\ \A t \in SeqTasks : task[t].pc = "idle"

\* C12: connect() called while the session is already connected returns True
\* in the call itself, makes no transport call, does not take the session
\* lock and leaves the handle and the connected flag unchanged.
C12_ConnectFastPath ==
    [][\A t \in SeqTasks :
          (CallStep(t) /\ hist'[t].op.name = "connect" /\ is_connected(Cur(t))) =>
              /\ hist'[t].ret = "True"
              /\ hist'[t].tlog = <<>>
              /\ task'[t].pc = "idle"
              /\ UNCHANGED <<_client, _connected, _lock, open, light>>]_vars

\* connect() has returned True at once on a session whose link is up
C12_Witness ==
    \E t \in SeqTasks :
        /\ hist[t].op.name = "connect" /\ hist[t].ret = "True" /\ hist[t].tlog = <<>>
        /\ _connected /\ _client # None /\ _client[1] \in open

\* how often ev occurs in the transport-call log
CountOf(log, ev) == Cardinality({i \in 1..Len(log) : log[i] = ev})

\* the number of _send_command calls caller t's command has made so far
SendsBegun(t) == Len(hist[t].sent) + (IF task[t].insend THEN 1 ELSE 0)

\* C13: connect() makes at most MAX_CONNECTION_RETRIES attempts; when all fail
\* it returns False without raising and leaves the session Disconnected; the
\* failure is not sticky: every later _send_command connects again.
C13_ConnectBudget ==
    \A t \in SeqTasks :
        /\ task[t].attempts < MAX_CONNECTION_RETRIES
        /\ hist[t].op.name = "connect" =>
               /\ hist[t].ret # "raised"
               /\ hist[t].ret = "False" => (Disconnected /\ hist[t].tlog = <<"connect">>)
        /\ hist[t].op.name \in LightCommands =>
               CountOf(hist[t].tlog, "connect") >= SendsBegun(t) - 1

\* within one turn_on: the first frame's connect failed, the second frame's succeeded
C13_Witness ==
    \E t \in SeqTasks :
        /\ hist[t].op.name = "turn_on" /\ Returned(t)
        /\ Len(hist[t].sent) = 3
        /\ hist[t].sent[1].res = "False" /\ hist[t].sent[2].res = "True"
        /\ Len(hist[t].tlog) >= 3
        /\ hist[t].tlog[1] = "connect" /\ hist[t].tlog[2] = "connect"
        /\ hist[t].tlog[3] = "write"

\* C14: a _send_command whose write fails returns False (it does not raise)
\* and leaves the session Disconnected, and no _send_command call makes more
\* than one transport write.
C14_WriteFailureReturnsFalse ==
    \A t \in SeqTasks :
        hist[t].op.name \in LightCommands =>
            /\ \A i \in 1..Len(hist[t].sent) : hist[t].sent[i].res \in {"True", "False"}
            /\ CountOf(hist[t].tlog, "write") <= SendsBegun(t)
            /\ (Returned(t) /\ hist[t].sent # <<>>) => Disconnected

\* C15: disconnect() never raises; once it has returned, _client is None and
\* _connected is False whether or not the transport disconnect raised; called
\* on a Disconnected session it makes no transport call and changes nothing.
C15_DisconnectBestEffort ==
    [][\A t \in SeqTasks :
          hist'[t].op.name = "disconnect" =>
              /\ hist'[t].ret # "raised"
              /\ hist'[t].ret = "None" => (_client' = None /\ ~_connected')
              /\ (CallStep(t) /\ Disconnected) =>
                     /\ hist'[t].ret = "None" /\ hist'[t].tlog = <<>>
                     /\ UNCHANGED <<_client, _connected, _lock, open, light>>]_vars

\* disconnect() has returned after a transport disconnect on a connected session
C15_Witness ==
    \E t \in SeqTasks :
        /\ hist[t].op.name = "disconnect" /\ hist[t].ret = "None"
        /\ hist[t].tlog = <<"disconnect">>
        /\ Disconnected

\* the explicit power-off frame of the session's protocol
PowerOffFrame(info, frame) ==
    IF uses_infinity_protocol(info)
    THEN /\ Len(frame) = 12
         /\ frame[2] = INF_POWER_CMD /\ frame[10] = STD_POWER_CMD /\ frame[11] = 0
    ELSE /\ Len(frame) = 5
         /\ frame[2] = STD_POWER_CMD /\ frame[4] = 2

\* C16: turn_off, in every state and for both protocols, sets is_on to False,
\* leaves brightness, color_temp, hue and saturation unchanged, and attempts
\* exactly one frame, the explicit power-off frame.
C16_TurnOffPowerFrame ==
    [][\A t \in SeqTasks :
          hist'[t].op.name = "turn_off" =>
              /\ ~_is_on'
              /\ UNCHANGED <<_brightness, _color_temp, _hue, _saturation>>
              /\ \A i \in 1..Len(hist'[t].sent) :
                     PowerOffFrame(_model_info, hist'[t].sent[i].frame)
              /\ task'[t].insend => PowerOffFrame(_model_info, task'[t].frame)
              /\ hist'[t].ret \notin {"none", "pending"} => Len(hist'[t].sent) = 1]_vars

\* turn_off has returned on an Infinity session that was on at brightness 80
C16_Witness ==
    \E t \in SeqTasks :
        /\ hist[t].op.name = "turn_off" /\ hist[t].ret = "True"
        /\ uses_infinity_protocol(_model_info)
        /\ Len(hist[t].sent) = 1 /\ hist[t].sent[1].frame[2] = INF_POWER_CMD
        /\ ~_is_on /\ _brightness = 80

\* the kelvin argument lies inside the device's range
KelvinInRange == calc.range[1] <= calc.kelvin /\ calc.kelvin <= calc.range[2]

\* C17 as stated: for every catalog range and every kelvin inside it, the
\* round trip internalToKelvin(kelvinToInternal(kelvin)) is within 1 of kelvin.
C17_RoundTripWithinOne ==
    (calc.fn = "_kelvin_to_internal" /\ KelvinInRange) =>
        /\ calc.back - calc.kelvin <= 1
        /\ calc.kelvin - calc.back <= 1

\* C17 amended: for every catalog range and every kelvin inside it, the round
\* trip never exceeds kelvin and falls short of it by at most one step of the
\* 0..100 internal scale, (max - min) / 100 kelvin; it is exact at min and max.
C17_RoundTripWithinStep ==
    (calc.fn = "_kelvin_to_internal" /\ KelvinInRange) =>
        /\ calc.back <= calc.kelvin
        /\ (calc.kelvin - calc.back) * 100 <= calc.range[2] - calc.range[1]
        /\ calc.kelvin \in {calc.range[1], calc.range[2]} => calc.back = calc.kelvin

\* on 3200-5600 K a round trip falls short by a whole step, 24 K
C17_Witness ==
    /\ calc.fn = "_kelvin_to_internal"
    /\ calc.range = <<3200, 5600>>
    /\ KelvinInRange
    /\ calc.kelvin - calc.back = 24

\* the sum of the first n elements of s
RECURSIVE PlainSum(_, _)
PlainSum(s, n) == IF n = 0 THEN 0 ELSE s[n] + PlainSum(s, n - 1)

\* sum & 0xFF over all bytes before the last
ChecksumOfFront(frame) == PlainSum(frame, Len(frame) - 1) % 256

BuilderNames ==
    {"_build_cct_command", "_build_hsi_command", "_build_power_command",
     "_build_brightness_only_command", "_build_temp_only_command"}

\* C18: every frame a builder produces ends with the sum of all preceding
\* bytes masked to 8 bits, and _calculate_checksum of any list is the masked sum
\* of its elements with 256 added to each negative one.
C18_Checksum ==
    /\ calc.fn \in BuilderNames =>
           calc.frame[Len(calc.frame)] = ChecksumOfFront(calc.frame)
    /\ calc.fn = "_calculate_checksum" =>
           LET corrected == [i \in 1..Len(calc.data) |->
                               IF calc.data[i] < 0 THEN calc.data[i] + 256
                               ELSE calc.data[i]]
           IN  calc.out = PlainSum(corrected, Len(corrected)) % 256

\* the checksum of a list with a negative element: 255 + 255 + 120 = 630, masked 118
C18_Witness ==
    /\ calc.fn = "_calculate_checksum"
    /\ calc.data = <<-1, 255, 120>>
    /\ calc.out = 118

\* frame is front followed by the checksum of front
FrameIs(frame, front) ==
    frame = front \o <<PlainSum(front, Len(front)) % 256>>

\* C19: the Standard CCT frame is [0x78, 0x87, 0x02, b, 32 + floor(t*24/100),
\* checksum] (brightness 80 at 4000 K on 3200-5600 K: internal 33, protocol
\* temp 39, frame [0x78,0x87,0x02,0x50,0x27,checksum]); the Infinity CCT frame
\* is [0x78, 0x90, 0x0B, six MAC bytes, 0x87, b, protocolTemp, 50, 0x04, checksum].
C19_CctFrame ==
    calc.fn = "_build_cct_command" =>
        LET b == calc.brightness
            pt == 32 + (calc.color_temp * 24) \div 100
        IN  /\ IF calc.infinity
               THEN /\ Len(calc.mac) = 6
                    /\ FrameIs(calc.frame,
                               <<120, 144, 11>> \o calc.mac \o <<135, b, pt, 50, 4>>)
               ELSE FrameIs(calc.frame, <<120, 135, 2, b, pt>>)
            /\ (~calc.infinity /\ b = 80
                  /\ calc.color_temp = _kelvin_to_internal(DefaultModelInfo, 4000)) =>
                   /\ calc.color_temp = 33
                   /\ calc.frame = <<120, 135, 2, 80, 39, 120>>

\* the Standard CCT frame of brightness 80 at internal temperature 33
C19_Witness ==
    /\ calc.fn = "_build_cct_command" /\ ~calc.infinity
    /\ calc.brightness = 80 /\ calc.color_temp = 33
    /\ calc.frame = <<120, 135, 2, 80, 39, 120>>

\* C20: the Infinity power frame is [0x78, 0x8D, 0x08, six MAC bytes, 0x81, p,
\* checksum] with p = 1 for on and 0 for off (address AA:BB:CC:DD:EE:FF gives
\* MAC bytes 0xAA..0xFF); the Standard power frame is [0x78, 0x81, 0x01, p,
\* checksum] with p = 1 for on and 2 for off.
C20_PowerFrame ==
    calc.fn = "_build_power_command" =>
        /\ IF calc.infinity
           THEN /\ Len(calc.mac) = 6
                /\ FrameIs(calc.frame,
                           <<120, 141, 8>> \o calc.mac
                           \o <<129, IF calc.on THEN 1 ELSE 0>>)
           ELSE FrameIs(calc.frame, <<120, 129, 1, IF calc.on THEN 1 ELSE 2>>)
        /\ (calc.infinity /\ calc.on /\ calc.mac[1] = 170) =>
               calc.frame = <<120, 141, 8, 170, 187, 204, 221, 238, 255, 129, 1, 138>>

\* the Infinity power-on frame of the device at AA:BB:CC:DD:EE:FF
C20_Witness ==
    /\ calc.fn = "_build_power_command" /\ calc.infinity /\ calc.on
    /\ calc.frame = <<120, 141, 8, 170, 187, 204, 221, 238, 255, 129, 1, 138>>

\* C21: in every frame a builder produces the first byte is 0x78 and the third
\* byte counts the bytes after it up to, not including, the checksum: 1 for
\* Standard power, brightness-only and temp-only, 2 for Standard CCT, 4 for
\* Standard HSI, 0x08 for Infinity power and 0x0B for Infinity CCT and HSI.
C21_FrameShape ==
    calc.fn \in BuilderNames =>
        /\ calc.frame[1] = 120
        /\ calc.frame[3] = Len(calc.frame) - 4
        /\ calc.frame[3] =
               IF calc.infinity
               THEN (IF calc.fn = "_build_power_command" THEN 8 ELSE 11)
               ELSE (IF calc.fn = "_build_cct_command" THEN 2
                     ELSE IF calc.fn = "_build_hsi_command" THEN 4 ELSE 1)

\* an Infinity HSI frame: fifteen bytes, length byte 0x0B
C21_Witness ==
    /\ calc.fn = "_build_hsi_command" /\ calc.infinity
    /\ Len(calc.frame) = 15 /\ calc.frame[3] = 11 /\ calc.frame[1] = 120

\* C22: for every integer kelvin and every catalog range kelvinToInternal is an
\* integer in 0..100, 0 at or below min, 100 at or above max and
\* floor((kelvin - min) * 100 / (max - min)) in between; the protocol
\* temperature is 32 + floor(t * 24 / 100), lies in 32..56, never decreases with
\* t and is the same whatever the device's range.
C22_KelvinConversion ==
    /\ calc.fn = "_kelvin_to_internal" =>
           /\ calc.internal \in 0..100
           /\ calc.kelvin <= calc.range[1] => calc.internal = 0
           /\ calc.kelvin >= calc.range[2] => calc.internal = 100
           /\ (calc.range[1] < calc.kelvin /\ calc.kelvin < calc.range[2]) =>
                  calc.internal = ((calc.kelvin - calc.range[1]) * 100)
                                      \div (calc.range[2] - calc.range[1])
    /\ calc.fn \in {"_build_temp_only_command", "_build_cct_command"} =>
           LET pt == calc.frame[Len(calc.frame) - (IF calc.infinity THEN 3 ELSE 1)]
           IN  /\ pt = 32 + (calc.color_temp * 24) \div 100
               /\ pt \in 32..56
               /\ calc.color_temp < 100 => pt <= TempProtocol(calc.color_temp + 1)

\* C23: _detect_model returns the catalog entry of least position whose key or
\* upper-cased display name occurs in the upper-cased advertised name, so
\* "NEEWER-RGB530PRO" resolves to RGB530, enumerated before RGB530PRO; without
\* a match it returns the fallback: Standard, no RGB, 3200-5600 K, not legacy.
C23_FirstMatchWins ==
    calc.fn = "_detect_model" =>
        LET name == Upper(calc.adv_name)
            hits == {i \in 1..Len(SUPPORTED_MODELS) :
                        \/ Contains(name, SUPPORTED_MODELS[i].code)
                        \/ Contains(name, Upper(SUPPORTED_MODELS[i].info.name))}
        IN  /\ hits # {} =>
                   \E i \in hits : /\ \A j \in hits : i <= j
                                   /\ calc.info = SUPPORTED_MODELS[i].info
            /\ hits = {} =>
                   /\ ~Get(calc.info, "infinity", FALSE)
                   /\ ~Get(calc.info, "rgb", FALSE)
                   /\ Get(calc.info, "cct_range", <<>>) = <<3200, 5600>>
                   /\ ~Get(calc.info, "cct_only", FALSE)
            /\ calc.adv_name = <<"N", "E", "E", "W", "E", "R", "-", "R", "G", "B", "5", "3", "0", "P", "R", "O">> => calc.info.name = <<"R", "G", "B", "5", "3", "0">>

\* the name holding both RGB530 and RGB530PRO resolved to the shorter, earlier key
C23_Witness ==
    /\ calc.fn = "_detect_model"
    /\ calc.adv_name = <<"N", "E", "E", "W", "E", "R", "-", "R", "G", "B", "5", "3", "0", "P", "R", "O">>
    /\ calc.info.name = <<"R", "G", "B", "5", "3", "0">>
    /\ calc.info.rgb

\* C25: _get_mac_bytes returns six bytes and never raises: six colon- or
\* dash-delimited hex pairs give their values in order, and a malformed address
\* (wrong number of parts, or parts that are not hex) gives six zero bytes; a
\* failed hardware-MAC resolution takes the same path on the advertised address.
C25_MacBytesTotal ==
    calc.fn = "_get_mac_bytes" =>
        /\ ~calc.raised
        /\ Len(calc.bytes) = 6
        /\ \A i \in 1..6 : calc.bytes[i] \in 0..255
        /\ calc.hw = None =>
               /\ calc.address = GoodAddress => calc.bytes = <<170, 187, 204, 221, 238, 255>>
               /\ calc.address = OtherAddress => calc.bytes = <<0, 17, 34, 51, 68, 85>>
               /\ calc.address \in {ShortAddress, NonHexAddress} => calc.bytes = ZeroMac

\* C27: for hue h in 0..360 the HSI frame is [0x78, 0x86, 0x04, h mod 256,
\* h div 256, s, i, checksum] on Standard and [0x78, 0x8F, 0x0B, six MAC bytes,
\* 0x86, h mod 256, h div 256, s, i, checksum] on Infinity; the hue bytes are
\* little-endian: low + 256 * high = h.
C27_HsiFrame ==
    (calc.fn = "_build_hsi_command" /\ calc.hue \in 0..360) =>
        LET h == calc.hue
            at == IF calc.infinity THEN 11 ELSE 4
        IN  /\ IF calc.infinity
               THEN /\ Len(calc.mac) = 6
                    /\ FrameIs(calc.frame,
                               <<120, 143, 11>> \o calc.mac
                               \o <<134, h % 256, h \div 256, calc.saturation, calc.intensity>>)
               ELSE FrameIs(calc.frame,
                            <<120, 134, 4, h % 256, h \div 256, calc.saturation, calc.intensity>>)
            /\ calc.frame[at] + 256 * calc.frame[at + 1] = h

\* hue 360 on Standard: low byte 104, high byte 1
C27_Witness ==
    /\ calc.fn = "_build_hsi_command" /\ ~calc.infinity
    /\ calc.hue = 360
    /\ calc.frame[4] = 104 /\ calc.frame[5] = 1

\* the session is an Infinity session on the platform that hides the MAC
VirtualizedInfinity == uses_infinity_protocol(_model_info) /\ platform_system = "Darwin"

\* C24: the hardware-MAC cache starts None and, once set, never changes; a
\* command that builds a frame on an Infinity session of the virtualized
\* platform calls the lookup exactly when the cache is still None (a failed
\* lookup is retried by the next build, a successful one never repeated); on any
\* other session the lookup is never called and the cache stays None.
C24_CacheStep ==
    /\ _hw_mac_address # None => _hw_mac_address' = _hw_mac_address
    /\ ~VirtualizedInfinity => _hw_mac_address = None /\ _hw_mac_address' = None
    /\ \A t \in Tasks :
         /\ CallStep(t) =>
              hist'[t].looked =
                  (/\ hist'[t].op.name \in LightCommands
                   /\ task'[t].pc # "idle"
                   /\ VirtualizedInfinity
                   /\ _hw_mac_address = None)
         /\ ~CallStep(t) => hist'[t].looked = hist[t].looked
         /\ (_hw_mac_address' # _hw_mac_address) => \E u \in Tasks : hist'[u].looked

C24_HardwareMacCache == [][C24_CacheStep]_vars

\* with the hardware MAC cached, a later command built its frame without a lookup
C24_Witness ==
    /\ VirtualizedInfinity
    /\ _hw_mac_address # None
    /\ \E t \in Tasks :
         /\ Returned(t)
         /\ hist[t].op.name \in LightCommands
         /\ Len(hist[t].sent) > 0
         /\ ~hist[t].looked

\* the opcodes of the HSI frame, Standard and Infinity
HsiOpcodes == {STD_HSI_CMD, INF_HSI_CMD}

\* the ModelInfo of the session reports RGB support
ReportsRgb == "rgb" \in DOMAIN _model_info /\ _model_info.rgb

\* caller t's step is its call of turn_on with a hue
TurnOnWithHue(t) ==
    CallStep(t) /\ hist'[t].op.name = "turn_on" /\ hist'[t].op.hue # None

\* C28: on a session whose ModelInfo does not report RGB no step changes hue or
\* saturation and no HSI frame (0x86, 0x8F) is ever built or sent; turn_on with
\* a hue there switches the light on in CCT mode (Standard power frame with
\* brightness and temperature to follow, or the Infinity CCT frame).  On an
\* RGB device turn_on with a hue builds the HSI frame and nothing else: no
\* power-on frame before it, no frame after it.
C28_Step ==
    /\ ~ReportsRgb =>
         /\ _hue' = _hue /\ _saturation' = _saturation
         /\ \A t \in Tasks :
              /\ task'[t].frame # <<>> => task'[t].frame[2] \notin HsiOpcodes
              /\ \A i \in 1..Len(hist'[t].sent) :
                     hist'[t].sent[i].frame[2] \notin HsiOpcodes
              /\ TurnOnWithHue(t) =>
                     /\ _is_on'
                     /\ task'[t].frame[2] \in {STD_POWER_CMD, INF_CCT_CMD}
                     /\ task'[t].frame[2] = STD_POWER_CMD => task'[t].rest = <<"bri", "temp">>
    /\ ReportsRgb =>
         \A t \in Tasks :
              /\ TurnOnWithHue(t) =>
                     /\ task'[t].frame[2] \in HsiOpcodes
                     /\ task'[t].rest = <<>>
                     /\ _hue' = Clamp(0, 360, hist'[t].op.hue[1])
              /\ (hist'[t].op.name = "turn_on" /\ hist'[t].op.hue # None) =>
                     /\ Len(hist'[t].sent) <= 1
                     /\ \A i \in 1..Len(hist'[t].sent) :
                            hist'[t].sent[i].frame[2] \in HsiOpcodes

C28_HsiOnlyWithRgb == [][C28_Step]_vars

\* turn_on with hue 120 returned on a device without RGB: three CCT-mode
\* frames, hue still 0
C28_Witness ==
    /\ ~ReportsRgb
    /\ \E t \in Tasks :
         /\ Returned(t)
         /\ hist[t].op.name = "turn_on" /\ hist[t].op.hue = Some(120)
         /\ Len(hist[t].sent) = 3
    /\ _hue = 0

\* caller t's command is the three-frame turn_on of a Standard device
ThreeFrameTurnOn(t) ==
    /\ hist[t].op.name = "turn_on"
    /\ ~uses_infinity_protocol(_model_info)
    /\ ~(ReportsRgb /\ hist[t].op.hue # None)

\* the connections the frames of a log were offered: one per connect, and the
\* one the session already held when the log opens with a write
Connections(log) ==
    CountOf(log, "connect") + (IF log # <<>> /\ log[1] = "write" THEN 1 ELSE 0)

AllBytes(frame) == \A i \in 1..Len(frame) : frame[i] \in 0..255

\* C29: whatever integers the light commands are given (negative, above 100,
\* hue above 360), every frame built and every frame handed to
\* write_gatt_char consists of integers in 0..255, so bytes(command) never
\* fails: brightness, saturation and hue are clamped before the frame is
\* built, the protocol temperature is in 32..56 and the checksum is masked.
C29_FrameBytes ==
    \A t \in Tasks :
        /\ AllBytes(task[t].frame)
        /\ task[t].pc = "writing" =>
               /\ task[t].frame # <<>>
               /\ task[t].pend # "raise"
               /\ task[t].frame[Len(task[t].frame)] = ChecksumOfFront(task[t].frame)
        /\ (task[t].frame # <<>>
              /\ task[t].frame[2] \in {STD_TEMP_CMD, STD_CCT_CMD, INF_CCT_CMD}) =>
               task[t].frame[Len(task[t].frame)
                             - (IF task[t].frame[2] = INF_CCT_CMD THEN 3 ELSE 1)] \in 32..56

\* set_rgb(400, -1, 150) in flight: hue 360 as 104, 1, saturation 0, brightness 100
C29_Witness ==
    \E t \in Tasks :
        /\ task[t].pc = "writing"
        /\ task[t].frame[2] = STD_HSI_CMD
        /\ task[t].frame[4] = 104 /\ task[t].frame[5] = 1
        /\ task[t].frame[6] = 0 /\ task[t].frame[7] = 100

\* C26: when every transport call eventually returns or fails, every call of
\* a public operation eventually returns and the session lock is eventually
\* released by whoever acquired it, whatever the interleaving of two callers'
\* commands, connects and disconnects.
C26_EveryCallReturns ==
    \A t \in Tasks :
        /\ (task[t].pc # "idle") ~> (task[t].pc = "idle")
        /\ (_lock.owner = t) ~> (_lock.owner # t)

\* one caller holds the lock inside establish_connection while the other is
\* queued for it
C26_Witness ==
    /\ _lock.owner = "A" /\ task["A"].pc = "establishing"
    /\ _lock.waiters = <<"B">> /\ task["B"].pc \in {"wait_connect", "wait_disconnect"}

\* C31: in every reachable state, whatever the interleaving of connects,
\* disconnects and commands and whatever the transport answers, a set connected
\* flag comes with a handle: _connected implies _client is not None.
C31_ConnectedHasClient == _connected => _client # None

\* the flag is set and the handle present while one caller writes and the
\* other is inside or queued for disconnect()
C31_Witness ==
    /\ _connected /\ _client # None
    /\ task["A"].pc = "writing"
    /\ task["B"].pc \in {"wait_disconnect", "disconnecting"}

====
